---- MODULE Spec2Model ----
(***************************************************************************)
(* Shamir secret sharing over GF(2^8): package shamir (Split, Recover and  *)
(* their helpers), package random (PermSecure) and the field arithmetic of *)
(* package galois.                                                         *)
(*                                                                         *)
(* Go slices are 0-indexed, TLA+ sequences are 1-indexed: slice element k  *)
(* is sequence element k+1 throughout.                                     *)
(***************************************************************************)
EXTENDS Integers, Sequences, FiniteSets

(***************************************************************************)
(* Bounds of the model.                                                    *)
(***************************************************************************)
\* largest number of participants n handed to Split
MaxN == 3
\* largest secret length handed to Split
MaxSecretLen == 1
\* largest number of caller-made shares handed to Recover
MaxShares == 2
\* largest length of a caller-made share handed to Recover
MaxShareLen == 3

\* largest number of coefficients of a polynomial handed to evaluatePolynomial
\* or sampled for interpolatePolynomial
MaxOrder == 3

\* secret bytes handed to Split
SecretBytes == {0, 42}
\* bytes crypto/rand may deliver to randomPolynomial
CoefBytes == {7, 19}
\* bytes of caller-made shares handed to Recover
ShareBytes == {1, 2}
\* coefficients of the polynomials handed to evaluatePolynomial
PolyBytes == {0, 7, 19, 42}
\* coordinates at which a polynomial is sampled for interpolatePolynomial
SampleCoordinates == {1, 2, 3, 4}
\* points z at which interpolatePolynomial is queried
QueryPoints == {0, 1, 5}

(***************************************************************************)
(* Package galois: GF(2^8) with the AES polynomial 0x11B, by log/antilog   *)
(* tables over the generator 3.                                            *)
(***************************************************************************)
RECURSIVE Xor(_, _)
Xor(a, b) ==
    IF a = 0 THEN b
    ELSE IF b = 0 THEN a
    ELSE (((a % 2) + (b % 2)) % 2) + (2 * Xor(a \div 2, b \div 2))

\* multiplication by x, reduced modulo 0x11B
Double(a) == IF 2 * a >= 256 THEN Xor(2 * a, 283) ELSE 2 * a

\* carry-less multiplication of a and b reduced modulo 0x11B
RECURSIVE CarrylessMultiply(_, _)
CarrylessMultiply(a, b) ==
    IF b = 0 THEN 0
    ELSE Xor(IF b % 2 = 1 THEN a ELSE 0, CarrylessMultiply(Double(a), b \div 2))

\* g^k by repeated squaring
RECURSIVE Power(_, _)
Power(g, k) ==
    IF k = 0 THEN 1
    ELSE LET half == Power(g, k \div 2)
             square == CarrylessMultiply(half, half)
         IN  IF k % 2 = 1 THEN CarrylessMultiply(square, g) ELSE square

\* ExpTable[i + 1] = 3^i, i in 0..254
ExpTable == <<>> \o [i \in 1..255 |-> Power(3, i - 1)]

\* LogTable[a] = i with 3^i = a, a in 1..255
LogTable == <<>> \o [a \in 1..255 |-> CHOOSE i \in 0..254 : ExpTable[i + 1] = a]

\* XorTable[a + 1][b + 1] = a XOR b
XorTable == <<>> \o [a \in 1..256 |-> <<>> \o [b \in 1..256 |-> Xor(a - 1, b - 1)]]

\* the failure of a division by the additive identity
DivideByZero == -1

Add(a, b) == XorTable[a + 1][b + 1]

Multiply(a, b) ==
    IF a = 0 \/ b = 0 THEN 0
    ELSE ExpTable[((LogTable[a] + LogTable[b]) % 255) + 1]

Inverse(a) == ExpTable[((255 - LogTable[a]) % 255) + 1]

Divide(a, b) ==
    IF b = 0 THEN DivideByZero ELSE Multiply(a, Inverse(b))

(***************************************************************************)
(* Package random.                                                         *)
(***************************************************************************)
\* the values rand.Perm(n) can return: the permutations of [0, n)
PermSecure(n) ==
    {p \in [1..n -> 0..(n - 1)] : \A i, j \in 1..n : i # j => p[i] # p[j]}

(***************************************************************************)
(* Package shamir.                                                         *)
(***************************************************************************)
minSecretLength == 1
minThreshold == 2

\* the values randomPolynomial(order) can return when rand.Read succeeds:
\* coefficient 0 is the zero value, coefficients 1..order-1 are random
randomPolynomial(order) ==
    {<<0>> \o r : r \in [1..(order - 1) -> CoefBytes]}

\* the values pickCoordinates(n) can return
pickCoordinates(n) == PermSecure(n)

\* Horner stopping before the intercept (loop condition i > 0 for i >= 0)
RECURSIVE Horner_SkipIntercept(_, _, _, _)
Horner_SkipIntercept(x, polynomial, i, value) ==
    IF i < 2 THEN value
    ELSE Horner_SkipIntercept(x, polynomial, i - 1,
                              Add(polynomial[i], Multiply(value, x)))

RECURSIVE Horner(_, _, _, _)
Horner(x, polynomial, i, value) ==
    IF i < 1 THEN value
    ELSE Horner(x, polynomial, i - 1, Add(polynomial[i], Multiply(value, x)))

evaluatePolynomial(x, polynomial) ==
    IF x = 0 THEN polynomial[1]
    ELSE LET degree == Len(polynomial) - 1
         IN  Horner(x, polynomial, degree, polynomial[degree + 1])

initShareMatrix(n, secretLength) ==
    [i \in 1..n |-> [j \in 1..(secretLength + 1) |-> 0]]

\* the zero value of "var basis uint8"
basisInit == 0

RECURSIVE BasisLoop(_, _, _, _, _)
BasisLoop(x, z, i, j, basis) ==
    IF j > Len(x) THEN basis
    ELSE IF j # i
         THEN LET numerator == Add(z, x[j])
                  denominator == Add(x[i], x[j])
                  quotient == Divide(numerator, denominator)
              IN  IF quotient = DivideByZero THEN DivideByZero
                  ELSE BasisLoop(x, z, i, j + 1, Multiply(basis, quotient))
         ELSE BasisLoop(x, z, i, j + 1, basis)

\* InterpolateLoop adding y[i] where the running result was meant
RECURSIVE InterpolateLoop_LastTerm(_, _, _, _, _)
InterpolateLoop_LastTerm(x, y, z, i, result) ==
    IF i > Len(x) THEN result
    ELSE LET basis == BasisLoop(x, z, i, 1, basisInit)
         IN  IF basis = DivideByZero THEN DivideByZero
             ELSE InterpolateLoop_LastTerm(x, y, z, i + 1,
                                           Add(Multiply(basis, y[i]), y[i]))

RECURSIVE InterpolateLoop(_, _, _, _, _)
InterpolateLoop(x, y, z, i, result) ==
    IF i > Len(x) THEN result
    ELSE LET basis == BasisLoop(x, z, i, 1, basisInit)
         IN  IF basis = DivideByZero THEN DivideByZero
             ELSE InterpolateLoop(x, y, z, i + 1, Add(Multiply(basis, y[i]), result))

interpolatePolynomial(x, y, z) == InterpolateLoop(x, y, z, 1, 0)

\* SplitShares appending the participant's index where its coordinate was meant
SplitShares_IndexAsCoordinate(secretIn, nIn, xs, polys) ==
    LET matrix == initShareMatrix(nIn, Len(secretIn))
    IN  [i \in DOMAIN matrix |->
            [j \in DOMAIN matrix[i] |->
                IF j <= Len(secretIn)
                THEN evaluatePolynomial(xs[i], polys[j])
                ELSE i - 1]]

\* the body of Split once the inputs are validated, the coordinates x picked and
\* the polynomial of every secret byte (intercept already set) generated
SplitShares(secretIn, nIn, xs, polys) ==
    LET matrix == initShareMatrix(nIn, Len(secretIn))
    IN  [i \in DOMAIN matrix |->
            [j \in DOMAIN matrix[i] |->
                IF j <= Len(secretIn)
                THEN evaluatePolynomial(xs[i], polys[j])
                ELSE xs[i]]]

\* secretBuffer as long as a share, the coordinate byte included
secretBuffer_Full(shareLength) == [j \in 1..shareLength |-> 0]

\* the buffer Recover allocates for the recovered secret
secretBuffer(shareLength) == [j \in 1..(shareLength - 1) |-> 0]

\* Recover: its outcome, whether it ended the process, and the returned bytes.
\* A log.Fatal is recorded under the error kind its message stands for; a
\* failed field division is recorded as the outcome DivideByZero.
Recover(sharesIn) ==
    IF Len(sharesIn) < minThreshold
    THEN [outcome |-> "TooFewShares", fatal |-> TRUE, secret |-> <<>>]
    ELSE LET shareLength == Len(sharesIn[1])
         IN  IF \E k \in 1..Len(sharesIn) : Len(sharesIn[k]) # shareLength
             THEN [outcome |-> "InconsistentShareLengths", fatal |-> TRUE, secret |-> <<>>]
             ELSE IF shareLength - 1 < 0
             \* make([]byte, -1) panics
             THEN [outcome |-> "panic", fatal |-> TRUE, secret |-> <<>>]
             ELSE LET coordinates == [i \in 1..Len(sharesIn) |-> sharesIn[i][shareLength]]
                      values(j) == [i \in 1..Len(sharesIn) |-> sharesIn[i][j]]
                      bytes == [j \in DOMAIN secretBuffer(shareLength) |->
                                   interpolatePolynomial(coordinates, values(j), 0)]
                  IN  IF \E j \in DOMAIN bytes : bytes[j] = DivideByZero
                      THEN [outcome |-> "DivideByZero", fatal |-> FALSE, secret |-> <<>>]
                      ELSE [outcome |-> "ok", fatal |-> FALSE, secret |-> bytes]

(***************************************************************************)
(* State: the process, the last Split call (inputs, random draws, result)  *)
(* and the last Recover call (inputs, result).  Split and Recover keep no  *)
(* state between calls, so a run is one Split call followed by one Recover *)
(* call on some of its shares, or one Recover call on caller-made shares.  *)
(***************************************************************************)
VARIABLES
    terminated,      \* the process was ended by log.Fatal or a panic
    secret, n, threshold,   \* arguments of the last Split call
    x,               \* coordinates picked by that call
    polynomials,     \* polynomial of every secret byte in that call
    shares,          \* share matrix that call returned
    splitOutcome,    \* "none", "ok" or the kind of failure
    recoverFrom,     \* indices into shares of the shares handed to Recover
    recoverShares,   \* argument of the last Recover call
    recovered,       \* bytes that call returned
    recoverOutcome,  \* "none", "ok" or the kind of failure
    fnPolynomial,    \* polynomial handed to evaluatePolynomial, or sampled
    fnPoint,         \* point x of evaluatePolynomial, or z of interpolatePolynomial
    fnCoordinates,   \* coordinates x handed to interpolatePolynomial
    fnValues,        \* values y handed to interpolatePolynomial
    fnResult,        \* byte the function returned
    fnApplied        \* "none", or the function that was applied

vars == <<terminated, secret, n, threshold, x, polynomials, shares, splitOutcome,
          recoverFrom, recoverShares, recovered, recoverOutcome,
          fnPolynomial, fnPoint, fnCoordinates, fnValues, fnResult, fnApplied>>

splitVars == <<secret, n, threshold, x, polynomials, shares, splitOutcome>>
recoverVars == <<recoverFrom, recoverShares, recovered, recoverOutcome>>
fnVars == <<fnPolynomial, fnPoint, fnCoordinates, fnValues, fnResult, fnApplied>>

\* no call was made
NoCall ==
    /\ terminated = FALSE
    /\ secret = <<>> /\ n = 0 /\ threshold = 0
    /\ x = <<>> /\ polynomials = <<>> /\ shares = <<>>
    /\ splitOutcome = "none"
    /\ recoverFrom = <<>> /\ recoverShares = <<>> /\ recovered = <<>>
    /\ recoverOutcome = "none"

Init ==
    /\ NoCall
    /\ fnPolynomial = <<>> /\ fnPoint = 0
    /\ fnCoordinates = <<>> /\ fnValues = <<>>
    /\ fnResult = 0 /\ fnApplied = "none"

\* the secrets handed to Split
Secrets == UNION {[1..len -> SecretBytes] : len \in 0..MaxSecretLen}

\* Split ends in log.Fatal, recorded under the error kind its message stands
\* for: nothing is returned
SplitFatal(secretIn, nIn, thresholdIn, kind) ==
    /\ terminated' = TRUE
    /\ secret' = secretIn /\ n' = nIn /\ threshold' = thresholdIn
    /\ x' = <<>> /\ polynomials' = <<>> /\ shares' = <<>>
    /\ splitOutcome' = kind

Split(secretIn, nIn, thresholdIn) ==
    /\ UNCHANGED <<recoverVars, fnVars>>
    /\ IF thresholdIn > nIn
       THEN SplitFatal(secretIn, nIn, thresholdIn, "InvalidThreshold")
       ELSE IF Len(secretIn) < minSecretLength
       THEN SplitFatal(secretIn, nIn, thresholdIn, "EmptySecret")
       ELSE IF thresholdIn < minThreshold
       THEN SplitFatal(secretIn, nIn, thresholdIn, "InvalidThreshold")
       ELSE \E xs \in pickCoordinates(nIn) :
              \/ \* rand.Read fails for some secret byte
                 SplitFatal(secretIn, nIn, thresholdIn, "RandomnessFailure")
              \/ \E drawn \in [1..Len(secretIn) -> randomPolynomial(thresholdIn)] :
                   LET polys == [j \in 1..Len(secretIn) |->
                                    [drawn[j] EXCEPT ![1] = secretIn[j]]]
                   IN  /\ terminated' = FALSE
                       /\ secret' = secretIn /\ n' = nIn /\ threshold' = thresholdIn
                       /\ x' = xs
                       /\ polynomials' = polys
                       /\ shares' = SplitShares(secretIn, nIn, xs, polys)
                       /\ splitOutcome' = "ok"

\* strictly increasing index sequences into a share matrix of m shares
RECURSIVE Subsequences(_)
Subsequences(m) ==
    IF m = 0 THEN {<<>>}
    ELSE LET shorter == Subsequences(m - 1)
         IN  shorter \cup {Append(s, m) : s \in shorter}

RecoverCall(sharesIn, from) ==
    LET r == Recover(sharesIn)
    IN  /\ recoverFrom' = from
        /\ recoverShares' = sharesIn
        /\ recovered' = r.secret
        /\ recoverOutcome' = r.outcome
        /\ terminated' = r.fatal

\* the caller hands Recover some of the shares Split returned, as main does
RecoverSplitShares(from) ==
    /\ RecoverCall([k \in 1..Len(from) |-> shares[from[k]]], from)
    /\ UNCHANGED <<splitVars, fnVars>>

\* the shares a caller can make up
CallerShares == UNION {[1..len -> ShareBytes] : len \in 0..MaxShareLen}
CallerShareLists == UNION {[1..m -> CallerShares] : m \in 0..MaxShares}

\* the caller hands Recover shares that stem from no Split call
RecoverCallerShares(sharesIn) ==
    /\ RecoverCall(sharesIn, <<>>)
    /\ UNCHANGED <<splitVars, fnVars>>

\* A live process calls Split at most once, and before any Recover.
SplitAny ==
    /\ ~terminated
    /\ splitOutcome = "none" /\ recoverOutcome = "none"
    /\ \E secretIn \in Secrets, nIn \in 0..MaxN, thresholdIn \in 0..(MaxN + 1) :
          Split(secretIn, nIn, thresholdIn)

\* A live process that holds the shares of a Split call recovers from some of them.
RecoverSplitAny ==
    /\ ~terminated
    /\ splitOutcome = "ok" /\ recoverOutcome = "none"
    /\ \E from \in Subsequences(n) : RecoverSplitShares(from)

\* A live process that called nothing yet recovers from shares of its own making.
RecoverCallerAny ==
    /\ ~terminated
    /\ splitOutcome = "none" /\ recoverOutcome = "none"
    /\ \E sharesIn \in CallerShareLists : RecoverCallerShares(sharesIn)

Next == SplitAny \/ RecoverSplitAny \/ RecoverCallerAny

Spec == Init /\ [][Next]_vars

\* Split calls alone
SpecSplit == Init /\ [][SplitAny]_vars

\* Recover calls on caller-made shares alone
SpecRecover == Init /\ [][RecoverCallerAny]_vars

(***************************************************************************)
(* evaluatePolynomial and interpolatePolynomial applied on their own.      *)
(***************************************************************************)
\* the non-empty polynomials handed to the two functions
Polynomials == UNION {[1..order -> PolyBytes] : order \in 1..MaxOrder}

\* the sequences of k pairwise distinct sample coordinates
DistinctCoordinates(k) ==
    {c \in [1..k -> SampleCoordinates] : \A i, j \in 1..k : i # j => c[i] # c[j]}

\* an x and a polynomial are at hand
InitEvaluate ==
    /\ NoCall
    /\ fnPolynomial \in Polynomials
    /\ fnPoint \in 0..255
    /\ fnCoordinates = <<>> /\ fnValues = <<>>
    /\ fnResult = 0 /\ fnApplied = "none"

EvaluateCall ==
    /\ fnApplied = "none"
    /\ fnResult' = evaluatePolynomial(fnPoint, fnPolynomial)
    /\ fnApplied' = "evaluatePolynomial"
    /\ UNCHANGED <<terminated, splitVars, recoverVars,
                   fnPolynomial, fnPoint, fnCoordinates, fnValues>>

SpecEvaluate == InitEvaluate /\ [][EvaluateCall]_vars

\* a polynomial of k coefficients was sampled at k pairwise distinct coordinates
\* and a query point z is at hand
InitInterpolate ==
    /\ NoCall
    /\ fnPolynomial \in Polynomials
    /\ fnPoint \in QueryPoints
    /\ fnCoordinates \in DistinctCoordinates(Len(fnPolynomial))
    /\ fnValues = [i \in 1..Len(fnPolynomial) |->
                      evaluatePolynomial(fnCoordinates[i], fnPolynomial)]
    /\ fnResult = 0 /\ fnApplied = "none"

InterpolateCall ==
    /\ fnApplied = "none"
    /\ fnResult' = interpolatePolynomial(fnCoordinates, fnValues, fnPoint)
    /\ fnApplied' = "interpolatePolynomial"
    /\ UNCHANGED <<terminated, splitVars, recoverVars,
                   fnPolynomial, fnPoint, fnCoordinates, fnValues>>

SpecInterpolate == InitInterpolate /\ [][InterpolateCall]_vars

(***************************************************************************)
(* Properties.                                                             *)
(***************************************************************************)
ValidSplitInput ==
    /\ threshold >= 2 /\ threshold <= n /\ n <= 255
    /\ Len(secret) >= 1

\* Recover was handed at least threshold of the shares of the last Split call
RecoveredAtThreshold ==
    /\ splitOutcome = "ok" /\ recoverOutcome # "none"
    /\ Len(recoverFrom) >= threshold

\* C1: Recover applied to at least threshold of the shares Split returned
\* returns exactly the secret handed to Split.
C1_RoundTrip ==
    RecoveredAtThreshold => (recoverOutcome = "ok" /\ recovered = secret)

\* the values one participant's share can take at one position, over every
\* choice of the random coefficient of degree 1, for coordinate xi and secret byte s
ShareValues(xi, s, order) ==
    {evaluatePolynomial(xi, <<s, c>> \o [k \in 1..(order - 2) |-> 0]) : c \in 0..255}

\* C2: a single share (fewer than threshold >= 2 shares) reveals nothing: the
\* values it can hold are the same whatever the secret byte.
C2_SingleShareSecrecy ==
    splitOutcome = "ok" =>
        \A i \in 1..n : \A s1, s2 \in SecretBytes :
            ShareValues(x[i], s1, threshold) = ShareValues(x[i], s2, threshold)

\* C3: the n coordinates of a Split call, stored as the trailing byte of the
\* shares, are pairwise distinct and all in 1..255.
C3_CoordinatesDistinctNonzero ==
    splitOutcome = "ok" =>
        /\ \A i, j \in 1..n : i # j => x[i] # x[j]
        /\ \A i \in 1..n : x[i] \in 1..255 /\ shares[i][Len(secret) + 1] = x[i]

\* C4: on valid input Split returns n shares of length len(secret)+1; the last
\* byte of share i is x[i]; byte j of share i is the value at x[i] of the one
\* polynomial of position j, which has threshold coefficients and intercept
\* secret[j].
C4_ShareMatrixLayout ==
    (splitOutcome = "ok" /\ ValidSplitInput) =>
        /\ Len(shares) = n
        /\ Len(x) = n
        /\ Len(polynomials) = Len(secret)
        /\ \A j \in 1..Len(secret) :
              /\ Len(polynomials[j]) = threshold
              /\ polynomials[j][1] = secret[j]
        /\ \A i \in 1..n :
              /\ Len(shares[i]) = Len(secret) + 1
              /\ shares[i][Len(secret) + 1] = x[i]
              /\ \A j \in 1..Len(secret) :
                    shares[i][j] = evaluatePolynomial(x[i], polynomials[j])

\* a three-participant matrix for a nonzero secret byte was returned
C4_Witness ==
    /\ splitOutcome = "ok" /\ ValidSplitInput
    /\ n = 3 /\ threshold = 3 /\ secret[1] = 42
    /\ x = <<2, 0, 1>>

\* the error kinds that apply to the arguments of the last Split call
ApplicableSplitKinds ==
    (IF threshold < 2 \/ threshold > n THEN {"InvalidThreshold"} ELSE {})
    \cup (IF n < 2 \/ n > 255 THEN {"InvalidParticipantCount"} ELSE {})
    \cup (IF Len(secret) = 0 THEN {"EmptySecret"} ELSE {})

\* C5: on invalid arguments Split fails with an error kind that applies to
\* them, returned to the caller, and nothing was selected, drawn or allocated.
C5_SplitValidation ==
    (splitOutcome # "none" /\ ~ValidSplitInput) =>
        /\ splitOutcome \in ApplicableSplitKinds
        /\ ~terminated
        /\ x = <<>> /\ polynomials = <<>> /\ shares = <<>>

\* C6: no call to Split or Recover ends the host process.
C6_NoProcessTermination == ~terminated

SharesSameLength(list) ==
    \A i, j \in 1..Len(list) : Len(list[i]) = Len(list[j])

\* C7: Recover fails with TooFewShares on fewer than 2 shares and with
\* InconsistentShareLengths on shares of different lengths, the failure is
\* returned to the caller and no secret byte is returned.
C7_RecoverValidation ==
    recoverOutcome # "none" =>
        /\ Len(recoverShares) < 2 =>
              (recoverOutcome = "TooFewShares" /\ ~terminated /\ recovered = <<>>)
        /\ (Len(recoverShares) >= 2 /\ ~SharesSameLength(recoverShares)) =>
              (recoverOutcome = "InconsistentShareLengths" /\ ~terminated
               /\ recovered = <<>>)

\* two of the shares carry the same trailing coordinate byte
DuplicateCoordinates(list) ==
    \E i, j \in 1..Len(list) :
        /\ i # j
        /\ Len(list[i]) >= 1 /\ Len(list[j]) >= 1
        /\ list[i][Len(list[i])] = list[j][Len(list[j])]

\* C8: shares with a repeated coordinate byte are rejected with
\* DuplicateCoordinate, and no Recover call reaches a division by zero.
C8_DuplicateCoordinateRejected ==
    recoverOutcome # "none" =>
        /\ recoverOutcome # "DivideByZero"
        /\ (Len(recoverShares) >= 2 /\ SharesSameLength(recoverShares)
            /\ DuplicateCoordinates(recoverShares))
              => recoverOutcome = "DuplicateCoordinate"

\* the bijections of 1..m
Reorderings(m) ==
    {p \in [1..m -> 1..m] : \A i, j \in 1..m : i # j => p[i] # p[j]}

\* C9: when Recover returns bytes for a list of shares, it returns the same
\* bytes for every permutation of that list.
C9_OrderIndependence ==
    recoverOutcome = "ok" =>
        \A p \in Reorderings(Len(recoverShares)) :
            LET r == Recover([k \in 1..Len(recoverShares) |-> recoverShares[p[k]]])
            IN  r.outcome = "ok" /\ r.secret = recovered

\* Recover returned bytes for two different shares
C9_Witness ==
    /\ recoverOutcome = "ok"
    /\ Len(recoverShares) = 2
    /\ recoverShares[1] = <<1, 2, 1>> /\ recoverShares[2] = <<2, 1, 2>>

\* Recover was handed m shares of the last Split call, 2 <= m < threshold
RecoveredBelowThreshold ==
    /\ splitOutcome = "ok" /\ recoverOutcome # "none"
    /\ Len(recoverFrom) >= 2 /\ Len(recoverFrom) < threshold

\* C10: Recover on m shares of one Split call, 2 <= m < threshold, ends
\* without error and returns len(secret) bytes.
C10_BelowThresholdNoError ==
    RecoveredBelowThreshold =>
        /\ recoverOutcome = "ok" /\ ~terminated
        /\ Len(recovered) = Len(secret)

\* below the threshold Recover returned bytes that are not the secret
C10_Witness == RecoveredBelowThreshold /\ recoverOutcome = "ok" /\ recovered # secret

\* the field sum over i of polynomial[i] * x^i, by carry-less multiplication
RECURSIVE PolynomialSum(_, _, _)
PolynomialSum(xi, p, i) ==
    IF i > Len(p) THEN 0
    ELSE Xor(CarrylessMultiply(p[i], Power(xi, i - 1)), PolynomialSum(xi, p, i + 1))

\* C11: evaluatePolynomial(x, polynomial) is the field sum of polynomial[i] * x^i,
\* and evaluatePolynomial(0, polynomial) is polynomial[0].
C11_EvaluatePolynomial ==
    fnApplied = "evaluatePolynomial" =>
        /\ fnResult = PolynomialSum(fnPoint, fnPolynomial, 1)
        /\ fnPoint = 0 => fnResult = fnPolynomial[1]

\* the polynomial 0x2A + 0x07 x + 0x13 x^2 was evaluated at x = 2
C11_Witness ==
    /\ fnApplied = "evaluatePolynomial"
    /\ fnPolynomial = <<42, 7, 19>> /\ fnPoint = 2
    /\ fnResult = 104

\* C12: for k pairwise distinct coordinates and the values at them of a
\* polynomial of k coefficients, interpolatePolynomial(x, y, z) is the value of
\* that polynomial at z, which at z = 0 is its intercept.
C12_InterpolatePolynomial ==
    fnApplied = "interpolatePolynomial" =>
        /\ fnResult = evaluatePolynomial(fnPoint, fnPolynomial)
        /\ fnPoint = 0 => fnResult = fnPolynomial[1]

\* C13: on two or more shares of one length L, Recover ends in no runtime
\* fault, and the bytes it returns are exactly L-1.
C13_RecoverNoRuntimeFault ==
    (recoverOutcome # "none" /\ Len(recoverShares) >= 2
     /\ SharesSameLength(recoverShares)) =>
        /\ recoverOutcome # "panic"
        /\ recoverOutcome = "ok" => Len(recovered) = Len(recoverShares[1]) - 1

====
